---------------------------- MODULE Spec2Model ----------------------------
(***************************************************************************)
(* Model of clams_utils.aapb.newshour_transcript_cleanup: the speaker-span *)
(* extractor and the title/bracket/speaker cleanup cascade.                *)
(*                                                                         *)
(* A transcript is a sequence of characters; a character is a one-letter   *)
(* string.  Offsets are Python offsets: position p lies between s[p] and   *)
(* s[p+1] of the 1-based TLA+ sequence s, so 0 <= p <= Len(s).             *)
(*                                                                         *)
(* The regular expressions of the source are written as syntax trees and   *)
(* run by Ends, a backtracking matcher with the semantics of Python's re:  *)
(* Ends(r, s, p) lists the offsets at which a match of r starting at p may *)
(* end, in the order in which the backtracking search tries them, so its   *)
(* head is the match re returns.                                           *)
(***************************************************************************)
EXTENDS Integers, Sequences, FiniteSets, TLC

VARIABLES
    text,     \* the input transcript
    op,       \* the operation that ran last
    markers,  \* the matches SPEAKER_MARKER_PATTERN.finditer found in text
    spans,    \* the speaker spans: triples <<speaker_id, start_char, end_char>>
    range,    \* the query <<char_start, char_end>> of split_by_speakers
    splits,   \* the result of split_by_speakers
    passes,   \* the text after each substitution of a cleanup operation
    removed,  \* the matches clean_speakers replaced: [line_start, inline]
    out,      \* the result of the operation on a text
    arg,      \* the argument of an operation that takes no text
    files,    \* the file system: the content of every path that exists
    calls     \* the calls made, or the steps of the running call

vars == <<text, op, markers, spans, range, splits, passes, removed, out,
          arg, files, calls>>

-----------------------------------------------------------------------------
(* Characters and character classes.                                       *)

UPPER == {"A","B","C","D","E","F","G","H","I","J","K","L","M",
          "N","O","P","Q","R","S","T","U","V","W","X","Y","Z"}
LOWER == {"a","b","c","d","e","f","g","h","i","j","k","l","m",
          "n","o","p","q","r","s","t","u","v","w","x","y","z"}
DIGIT == {"0","1","2","3","4","5","6","7","8","9"}
\* The backtick cannot be written in a TLA+ string; this value stands for it.
BACKTICK == "<backtick>"
\* \s of re, and the characters str.strip() removes (those of the model's texts).
WHITESPACE == {" ", "\t", "\n", "\r", "\f"}
\* The line boundaries of str.splitlines() (those of the model's texts).
LINEBREAK == {"\n", "\r", "\f"}

\* CaseFold(c): the two cases of a letter, for re.IGNORECASE and (?i:...).
CaseFold(c) ==
    LET ups == <<"A","B","C","D","E","F","G","H","I","J","K","L","M",
                 "N","O","P","Q","R","S","T","U","V","W","X","Y","Z">>
        los == <<"a","b","c","d","e","f","g","h","i","j","k","l","m",
                 "n","o","p","q","r","s","t","u","v","w","x","y","z">>
        ks  == {k \in 1..26 : ups[k] = c \/ los[k] = c}
    IN  IF ks = {} THEN {c} ELSE {ups[k] : k \in ks} \cup {los[k] : k \in ks}

-----------------------------------------------------------------------------
(* Sequence helpers.                                                       *)

\* s[a:b] of Python, for 0 <= a <= b <= Len(s).
Slice(s, a, b) == SubSeq(s, a + 1, b)

\* The concatenation of a sequence of sequences.
RECURSIVE Flatten(_)
Flatten(ss) == IF ss = <<>> THEN <<>> ELSE Head(ss) \o Flatten(Tail(ss))

\* F(v) for the value v of e, computed once however often F uses it.
With(F(_), e) == CHOOSE y \in { F(v) : v \in {e} } : TRUE

\* q without the later occurrences of its elements.
RECURSIVE DedupFrom(_, _, _)
DedupFrom(q, k, acc) ==
    IF k > Len(q) THEN acc
    ELSE DedupFrom(q, k + 1,
                   IF \E j \in 1..Len(acc) : acc[j] = q[k] THEN acc
                   ELSE Append(acc, q[k]))
Dedup(q) == DedupFrom(q, 1, <<>>)

-----------------------------------------------------------------------------
(* Regular expressions as syntax trees.                                    *)

Set(S)      == [t |-> "set",  s |-> S]            \* [...]
NotSet(S)   == [t |-> "nset", s |-> S]            \* [^...]
AnyChar     == NotSet({"\n"})                     \* .  (no DOTALL)
Cat(rs)     == [t |-> "cat",  rs |-> rs]          \* r1 r2 ...
Alt(rs)     == [t |-> "alt",  rs |-> rs]          \* r1 | r2 | ...
Greedy(r, lo, hi) == [t |-> "rep", r |-> r, lo |-> lo, hi |-> hi, g |-> TRUE]
Lazy(r, lo, hi)   == [t |-> "rep", r |-> r, lo |-> lo, hi |-> hi, g |-> FALSE]
Star(r)     == Greedy(r, 0, -1)                   \* r*   (hi = -1: unbounded)
Plus(r)     == Greedy(r, 1, -1)                   \* r+
Opt(r)      == Greedy(r, 0, 1)                    \* r?
LazyStar(r) == Lazy(r, 0, -1)                     \* r*?
Bol         == [t |-> "bol"]                      \* ^ under re.MULTILINE
Eol         == [t |-> "eol"]                      \* $ under re.MULTILINE
Ahead(r)    == [t |-> "ahead", r |-> r]           \* (?=r)
NotAhead(r) == [t |-> "nahead", r |-> r]          \* (?!r)
Behind(S)   == [t |-> "behind", s |-> S]          \* (?<=[...]), one character
\* A literal word, and the same under IGNORECASE.
Lit(w)      == Cat([k \in 1..Len(w) |-> Set({w[k]})])
LitCI(w)    == Cat([k \in 1..Len(w) |-> Set(CaseFold(w[k]))])

RECURSIVE Ends(_, _, _), CatEnds(_, _, _, _), AltEnds(_, _, _, _), RepEnds(_, _, _, _)

\* The ends of r's matches at p, in backtracking order.
Ends(r, s, p) ==
    CASE r.t = "set"    -> IF p < Len(s) /\ s[p+1] \in r.s THEN <<p+1>> ELSE <<>>
      [] r.t = "nset"   -> IF p < Len(s) /\ s[p+1] \notin r.s THEN <<p+1>> ELSE <<>>
      [] r.t = "bol"    -> IF p = 0 \/ s[p] = "\n" THEN <<p>> ELSE <<>>
      [] r.t = "eol"    -> IF p = Len(s) \/ s[p+1] = "\n" THEN <<p>> ELSE <<>>
      [] r.t = "ahead"  -> IF Ends(r.r, s, p) # <<>> THEN <<p>> ELSE <<>>
      [] r.t = "nahead" -> IF Ends(r.r, s, p) = <<>> THEN <<p>> ELSE <<>>
      [] r.t = "behind" -> IF p >= 1 /\ s[p] \in r.s THEN <<p>> ELSE <<>>
      [] r.t = "cat"    -> CatEnds(r.rs, 1, s, <<p>>)
      [] r.t = "alt"    -> Dedup(AltEnds(r.rs, 1, s, p))
      [] r.t = "rep"    -> RepEnds(r, s, p, 0)

\* rs[k], rs[k+1], ... matched in turn from each of the offsets ps.
CatEnds(rs, k, s, ps) ==
    IF k > Len(rs) \/ ps = <<>> THEN ps
    ELSE With(LAMBDA qs : CatEnds(rs, k + 1, s, qs),
              Dedup(Flatten([j \in 1..Len(ps) |-> Ends(rs[k], s, ps[j])])))

\* The alternatives rs[k], rs[k+1], ... tried in order.
AltEnds(rs, k, s, p) ==
    IF k > Len(rs) THEN <<>> ELSE Ends(rs[k], s, p) \o AltEnds(rs, k + 1, s, p)

\* r.r repeated, n repetitions done: greedy tries one more first, lazy last.
RepEnds(r, s, p, n) ==
    LET stop == IF n >= r.lo THEN <<p>> ELSE <<>>
        More(once) == Flatten([j \in 1..Len(once) |-> RepEnds(r, s, once[j], n + 1)])
        more == IF r.hi = -1 \/ n < r.hi
                THEN With(More, SelectSeq(Ends(r.r, s, p), LAMBDA e : e > p))
                ELSE <<>>
    IN  Dedup(IF r.g THEN more \o stop ELSE stop \o more)

\* re.search from offset p: <<start, end>> of the leftmost match, or <<>>.
RECURSIVE Search(_, _, _)
Search(r, s, p) ==
    IF p > Len(s) THEN <<>>
    ELSE With(LAMBDA es : IF es # <<>> THEN <<p, Head(es)>> ELSE Search(r, s, p + 1),
              Ends(r, s, p))

\* re.finditer: the non-overlapping matches, left to right (no pattern of the
\* source matches the empty string).
RECURSIVE FindAll(_, _, _)
FindAll(r, s, p) ==
    With(LAMBDA m : IF m = <<>> THEN <<>> ELSE <<m>> \o FindAll(r, s, m[2]),
         Search(r, s, p))

\* re.sub(r, repl, s) for a constant replacement.
RECURSIVE Replace(_, _, _, _)
Replace(ms, repl, s, p) ==
    IF ms = <<>> THEN Slice(s, p, Len(s))
    ELSE Slice(s, p, Head(ms)[1]) \o repl \o Replace(Tail(ms), repl, s, Head(ms)[2])

Sub(r, repl, s) == With(LAMBDA ms : Replace(ms, repl, s, 0), FindAll(r, s, 0))

-----------------------------------------------------------------------------
(* Shared constants for NewsHour transcript processing.                    *)

SECTION_TITLES ==
    << <<"I","N","T","R","O">>,
       <<"N","E","W","S","M","A","K","E","R">>,
       <<"N","E","W","S"," ","S","U","M","M","A","R","Y">>,
       <<"C","O","N","V","E","R","S","A","T","I","O","N">>,
       <<"B","R","I","G",".">>,
       <<"R","E","C","A","P">> >>

DOTTED_TITLES ==
    << <<"D","r",".">>, <<"M","r",".">>, <<"M","s",".">>, <<"M","r","s",".">>,
       <<"P","r","o","f",".">>, <<"P","r","e","s",".">>, <<"G","e","n",".">>,
       <<"R","e","p",".">>, <<"S","e","n",".">>, <<"G","o","v",".">> >>

MORE_TITLES ==
    << <<"M","a","y","o","r">>, <<"P","r","e","s","i","d","e","n","t">>,
       <<"S","e","c","r","e","t","a","r","y">> >>

SPEAKER_TITLES == DOTTED_TITLES \o MORE_TITLES

\* '|'.join(re.escape(t) for t in SPEAKER_TITLES): the titles as literals.
SPEAKER_TITLES_PATTERN ==
    Alt([k \in 1..Len(SPEAKER_TITLES) |-> Lit(SPEAKER_TITLES[k])])

\* Capture group 1: ((?:(?:titles)[ ]+)?[A-Z][A-Za-z \.'\-]+)
SpeakerNameGroup ==
    Cat(<< Opt(Cat(<<SPEAKER_TITLES_PATTERN, Plus(Set({" "}))>>)),
           Set(UPPER),
           Plus(Set(UPPER \cup LOWER \cup {" ", ".", "'", "-"})) >>)

\* (?:,[ ]*\([^)]+\)[^:\[\]]*|[ ]*\[[^\]]+\])*:[ ]*
\* Variant of the marker's tail that ends in \s* instead of [ ]*, so that a
\* match runs across the line break after the colon.
SpeakerMarkerTailAcrossLines ==
    Cat(<< Star(Alt(<< Cat(<< Set({","}), Star(Set({" "})), Set({"("}),
                              Plus(NotSet({")"})), Set({")"}),
                              Star(NotSet({":", "[", "]"})) >>),
                       Cat(<< Star(Set({" "})), Set({"["}),
                              Plus(NotSet({"]"})), Set({"]"}) >>) >>)),
           Set({":"}),
           Star(Set(WHITESPACE)) >>)

SpeakerMarkerTail ==
    Cat(<< Star(Alt(<< Cat(<< Set({","}), Star(Set({" "})), Set({"("}),
                              Plus(NotSet({")"})), Set({")"}),
                              Star(NotSet({":", "[", "]"})) >>),
                       Cat(<< Star(Set({" "})), Set({"["}),
                              Plus(NotSet({"]"})), Set({"]"}) >>) >>)),
           Set({":"}),
           Star(Set({" "})) >>)

SPEAKER_MARKER_PATTERN == Cat(<<Bol, SpeakerNameGroup, SpeakerMarkerTail>>)

\* The match of SPEAKER_MARKER_PATTERN at offset p, as <<m>> with m.start,
\* m.end and m.group1, or <<>>.  Group 1 ends at the first of its ends, in
\* backtracking order, from which the rest of the pattern matches.
SpeakerMarkerAt(s, p) ==
    LET gs == IF Ends(Bol, s, p) = <<>> THEN <<>> ELSE Ends(SpeakerNameGroup, s, p)
        ok == SelectSeq(gs, LAMBDA g : Ends(SpeakerMarkerTail, s, g) # <<>>)
    IN  IF ok = <<>> THEN <<>>
        ELSE << [start  |-> p,
                 end    |-> Head(Ends(SpeakerMarkerTail, s, Head(ok))),
                 group1 |-> Slice(s, p, Head(ok))] >>

\* SPEAKER_MARKER_PATTERN.finditer(s), from offset p on.
RECURSIVE SpeakerMarkers(_, _)
SpeakerMarkers(s, p) ==
    IF p > Len(s) THEN <<>>
    ELSE With(LAMBDA m : IF m = <<>> THEN SpeakerMarkers(s, p + 1)
                         ELSE m \o SpeakerMarkers(s, m[1].end),
              SpeakerMarkerAt(s, p))

-----------------------------------------------------------------------------
(* Speaker extraction.                                                     *)

\* str.strip()
RECURSIVE LStrip(_), RStrip(_)
LStrip(s) == IF s # <<>> /\ Head(s) \in WHITESPACE THEN LStrip(Tail(s)) ELSE s
RStrip(s) == IF s # <<>> /\ s[Len(s)] \in WHITESPACE
             THEN RStrip(SubSeq(s, 1, Len(s) - 1)) ELSE s
Strip(s) == RStrip(LStrip(s))

normalize_speaker_name(name) ==
    LET n == Strip(name)
    IN  [k \in 1..Len(n) |-> IF n[k] = " " THEN "_" ELSE n[k]]

\* The loop of extract_speaker_spans over the matches ms[k..]: last is <<>>
\* for last_speaker = None and <<last_speaker, last_content_start>> otherwise.
\* Variant of the loop that closes a span at the end of the next marker
\* instead of its start.
RECURSIVE SpanLoopClosingAtMatchEnd(_, _, _, _, _)
SpanLoopClosingAtMatchEnd(s, ms, k, last, acc) ==
    IF k > Len(ms)
    THEN IF last # <<>> THEN Append(acc, <<last[1], last[2], Len(s)>>) ELSE acc
    ELSE SpanLoopClosingAtMatchEnd(s, ms, k + 1,
             <<normalize_speaker_name(Strip(ms[k].group1)), ms[k].end>>,
             IF last # <<>> THEN Append(acc, <<last[1], last[2], ms[k].end>>)
             ELSE acc)

RECURSIVE SpanLoop(_, _, _, _, _)
SpanLoop(s, ms, k, last, acc) ==
    IF k > Len(ms)
    THEN IF last # <<>> THEN Append(acc, <<last[1], last[2], Len(s)>>) ELSE acc
    ELSE LET match         == ms[k]
             speaker_name  == Strip(match.group1)
             content_start == match.end
             closed == IF last # <<>>
                       THEN Append(acc, <<last[1], last[2], match.start>>)
                       ELSE acc
         IN  SpanLoop(s, ms, k + 1,
                      <<normalize_speaker_name(speaker_name), content_start>>,
                      closed)

\* Variant that forgets the last speaker: only the spans closed by a later
\* marker are returned.
extract_speaker_spans_without_last(transcript_text) ==
    With(LAMBDA all : IF all = <<>> THEN <<>> ELSE SubSeq(all, 1, Len(all) - 1),
         With(LAMBDA ms : SpanLoop(transcript_text, ms, 1, <<>>, <<>>),
              SpeakerMarkers(transcript_text, 0)))

extract_speaker_spans(transcript_text) ==
    With(LAMBDA ms : SpanLoop(transcript_text, ms, 1, <<>>, <<>>),
         SpeakerMarkers(transcript_text, 0))

Min(a, b) == IF a < b THEN a ELSE b
Max(a, b) == IF a > b THEN a ELSE b

\* Variant that returns the intersecting spans unclipped.
RECURSIVE split_by_speakers_unclipped(_, _, _)
split_by_speakers_unclipped(speaker_spans, char_start, char_end) ==
    IF speaker_spans = <<>> THEN <<>>
    ELSE LET rest == split_by_speakers_unclipped(Tail(speaker_spans),
                                                 char_start, char_end)
         IN  IF Head(speaker_spans)[3] <= char_start
                \/ Head(speaker_spans)[2] >= char_end
             THEN rest ELSE <<Head(speaker_spans)>> \o rest

RECURSIVE split_by_speakers(_, _, _)
split_by_speakers(speaker_spans, char_start, char_end) ==
    IF speaker_spans = <<>> THEN <<>>
    ELSE LET speaker_id == Head(speaker_spans)[1]
             span_start == Head(speaker_spans)[2]
             span_end   == Head(speaker_spans)[3]
             rest == split_by_speakers(Tail(speaker_spans), char_start, char_end)
         IN  IF span_end <= char_start \/ span_start >= char_end
             THEN rest
             ELSE << <<speaker_id, Max(span_start, char_start),
                       Min(span_end, char_end)>> >> \o rest

-----------------------------------------------------------------------------
(* Transcript cleanup.                                                     *)

\* focus_pattern: ^FOCUS\s*-.* under MULTILINE | IGNORECASE
focus_pattern ==
    Cat(<< Bol, LitCI(<<"F","O","C","U","S">>), Star(Set(WHITESPACE)),
           Set({"-"}), Star(AnyChar) >>)

\* re.escape(t).replace(r'\ ', r'\s+') under IGNORECASE
EscapedTitle(t) ==
    Cat([k \in 1..Len(t) |-> IF t[k] = " " THEN Plus(Set(WHITESPACE))
                             ELSE Set(CaseFold(t[k]))])

\* titles_pattern: ^\s*(?:INTRO|...|RECAP)\s*$ under MULTILINE | IGNORECASE
titles_pattern ==
    Cat(<< Bol, Star(Set(WHITESPACE)),
           Alt([k \in 1..Len(SECTION_TITLES) |-> EscapedTitle(SECTION_TITLES[k])]),
           Star(Set(WHITESPACE)), Eol >>)

\* The texts after each of the substitutions subs[k], subs[k+1], ... applied
\* in turn to t: each substitution's output is the next one's input.
RECURSIVE RunSubs(_, _, _, _)
RunSubs(subs, k, t, acc) ==
    IF k > Len(subs) THEN acc
    ELSE With(LAMBDA u : RunSubs(subs, k + 1, u, Append(acc, u)),
              Sub(subs[k].pattern, subs[k].repl, t))

\* The two substitutions of clean_titles, in their order.
TitleSubs ==
    << [pattern |-> focus_pattern,  repl |-> <<"\n">>],
       [pattern |-> titles_pattern, repl |-> <<"\n">>] >>

\* The texts of clean_titles after each of its two substitutions.
TitlePasses(transcript_text) == RunSubs(TitleSubs, 1, transcript_text, <<>>)

clean_titles(transcript_text) ==
    With(LAMBDA ps : ps[2], TitlePasses(transcript_text))

\* brackets: \s[\[\(].*?[\]\)]
brackets ==
    Cat(<< Set(WHITESPACE), Set({"[", "("}), LazyStar(AnyChar), Set({"]", ")"}) >>)

clean_brackets(transcript_text) == Sub(brackets, <<>>, transcript_text)

\* [A-Za-z\d\'\"`#\-]
NameChar == UPPER \cup LOWER \cup DIGIT \cup {"'", "\"", BACKTICK, "#", "-"}

\* [a-zA-Z\.\'-,\s]: in this class '-, is the range from ' to , of ASCII.
IntroChar == LOWER \cup UPPER \cup {".", "'", "(", ")", "*", "+", ","} \cup WHITESPACE

\* speaker_intro: (?<=[A-Z]),\s[a-zA-Z\.\'-,\s]*(?=:)
speaker_intro ==
    Cat(<< Behind(UPPER), Set({","}), Set(WHITESPACE), Star(Set(IntroChar)),
           Ahead(Set({":"})) >>)

\* (?i:Dr.|Mr.|...): '|'.join(DOTTED_TITLES), unescaped, so that each dot
\* matches any character but a line break.
DottedTitle(t) ==
    Cat([k \in 1..Len(t) |-> IF t[k] = "." THEN AnyChar ELSE Set(CaseFold(t[k]))])
DottedTitles == Alt([k \in 1..Len(DOTTED_TITLES) |-> DottedTitle(DOTTED_TITLES[k])])

\* speaker_titles_pattern: (?<=\n)(?i:Dr.|...)\s
speaker_titles_pattern == Cat(<< Behind({"\n"}), DottedTitles, Set(WHITESPACE) >>)

\* ([A-Za-z\d\'\"`#\-]+\s){0,3}[A-Za-z\d\'\"`#\-]+
NameTokens ==
    Cat(<< Greedy(Cat(<< Plus(Set(NameChar)), Set(WHITESPACE) >>), 0, 3),
           Plus(Set(NameChar)) >>)

\* newline_speaker: \n([A-Za-z\d\'\"`#\-]+\s){0,3}[A-Za-z\d\'\"`#\-]+:
newline_speaker == Cat(<< Set({"\n"}), NameTokens, Set({":"}) >>)

\* Variant of the inline pattern without its (?!\.) guard.
speaker_name_inline_unguarded ==
    Cat(<< Ahead(Set({".", "?", "-"} \cup WHITESPACE)), Set(WHITESPACE),
           NameTokens, Set({":"}) >>)

\* speaker_name_inline: (?=[\.\?\-\s])\s(?:(...\s){0,3}...+):(?!\.)
speaker_name_inline ==
    Cat(<< Ahead(Set({".", "?", "-"} \cup WHITESPACE)), Set(WHITESPACE),
           NameTokens, Set({":"}), NotAhead(Set({"."})) >>)

\* speaker_title_inline: (?i:Dr.|...)(?=\n)
speaker_title_inline == Cat(<< DottedTitles, Ahead(Set({"\n"})) >>)

\* The five substitutions of clean_speakers, in their order.
SpeakerSubs ==
    << [pattern |-> speaker_intro,          repl |-> <<>>],
       [pattern |-> speaker_titles_pattern, repl |-> <<>>],
       [pattern |-> newline_speaker,        repl |-> <<" ">>],
       [pattern |-> speaker_name_inline,    repl |-> <<"\n">>],
       [pattern |-> speaker_title_inline,   repl |-> <<>>] >>

\* The texts of clean_speakers after each of its five substitutions.
SpeakerPasses(transcript_text) == RunSubs(SpeakerSubs, 1, transcript_text, <<>>)

clean_speakers(transcript_text) ==
    With(LAMBDA ps : ps[5], SpeakerPasses(transcript_text))

\* str.splitlines(): the lines of s without their line breaks; "\r\n" is one
\* line break, and a line break at the end of s opens no further line.
RECURSIVE SplitLines(_, _)
SplitLines(s, line) ==
    IF s = <<>> THEN (IF line = <<>> THEN <<>> ELSE <<line>>)
    ELSE IF Head(s) \in LINEBREAK
         THEN <<line>> \o SplitLines(IF Head(s) = "\r" /\ Len(s) > 1 /\ s[2] = "\n"
                                     THEN Tail(Tail(s)) ELSE Tail(s), <<>>)
         ELSE SplitLines(Tail(s), Append(line, Head(s)))

\* '\n'.join(lines)
RECURSIVE JoinLines(_)
JoinLines(lines) ==
    IF lines = <<>> THEN <<>>
    ELSE IF Len(lines) = 1 THEN lines[1]
    ELSE lines[1] \o <<"\n">> \o JoinLines(Tail(lines))

\* '\n'.join(line.strip() for line in s.splitlines())
StripLines(s) ==
    With(LAMBDA lines : JoinLines([k \in 1..Len(lines) |-> Strip(lines[k])]),
         SplitLines(s, <<>>))

\* The texts of clean after each of its passes: the two substitutions of
\* clean_titles, clean_brackets, the five substitutions of clean_speakers and
\* the per-line strip.
CleanPasses(transcript_text) ==
    With(LAMBDA titles :
           With(LAMBDA brackd :
                  With(LAMBDA speakers :
                         titles \o <<brackd>> \o speakers
                                \o <<StripLines(speakers[Len(speakers)])>>,
                       SpeakerPasses(brackd)),
                clean_brackets(titles[Len(titles)])),
         TitlePasses(transcript_text))

\* Variant of clean that prepends a line break to its input, as file_cleaner
\* does for a .txt file.
clean_with_leading_newline(transcript_text) ==
    With(LAMBDA ps : ps[Len(ps)], CleanPasses(<<"\n">> \o transcript_text))

clean(transcript_text) ==
    With(LAMBDA ps : ps[Len(ps)], CleanPasses(transcript_text))

-----------------------------------------------------------------------------
(* Bounded inputs: a text is a sequence of at most MaxTokens tokens.       *)

MaxSpanTokens == 4

\* The texts made of at most n of the tokens toks.
TextsOf(toks, n) ==
    UNION { { Flatten([k \in 1..m |-> toks[f[k]]]) : f \in [1..m -> 1..Len(toks)] } :
            m \in 0..n }

\* Pieces of a transcript with speaker markers: two speakers with their
\* colon, a lone colon, a title, a bracketed and a parenthesised annotation,
\* content that no name contains, a space and a line break.
SpanTokens ==
    << <<"A","b",":">>, <<"C","D",":">>, <<":">>, <<" ">>, <<"\n">>, <<"1">>,
       <<"D","r","."," ">>, <<"[","v","]">>, <<",","(","D",")">> >>

SpanTexts == TextsOf(SpanTokens, MaxSpanTokens)

MaxTitleTokens == 4

\* Pieces of a transcript with section titles: a title in two spellings, the
\* start of a FOCUS title, other text, a space and a line break.
TitleTokens ==
    << <<"I","N","T","R","O">>, <<"I","n","t","r","o">>, <<"F","O","C","U","S","-">>,
       <<"x">>, <<" ">>, <<"\n">> >>

TitleTexts == TextsOf(TitleTokens, MaxTitleTokens)

MaxSpeakerTokens == 5

\* Pieces of a transcript with speaker names: a name, a colon, a period, a
\* space and a line break.
SpeakerTokens == << <<"A","b">>, <<":">>, <<".">>, <<" ">>, <<"\n">> >>

SpeakerTexts == TextsOf(SpeakerTokens, MaxSpeakerTokens)

MaxCleanTokens == 4

\* Pieces of a transcript with all that clean removes: a title, the start of
\* a FOCUS title, a parenthesised annotation, a speaker at the start of a
\* line, other text, a space and a line break.
CleanTokens ==
    << <<"I","N","T","R","O">>, <<"F","O","C","U","S","-">>, <<" ","(","b",")">>,
       <<"\n","A","b",":">>, <<"x">>, <<" ">>, <<"\n">> >>

CleanTexts == TextsOf(CleanTokens, MaxCleanTokens)

-----------------------------------------------------------------------------
(* The state machine: an input text, and the operations applied to it.     *)

MaxSpans == 2
MaxOffset == 3

\* Span lists as a caller may hold them: at most MaxSpans spans of two
\* speakers, in any order, each with 0 <= start_char <= end_char <= MaxOffset.
SpanTriples ==
    { <<id, a, b>> : id \in { <<"A","b">>, <<"C","D">> },
                     a \in 0..MaxOffset, b \in 0..MaxOffset }
SpanLists ==
    UNION { [1..n -> {sp \in SpanTriples : sp[2] <= sp[3]}] : n \in 0..MaxSpans }

\* A caller of split_by_speakers holding a span list, such as the lists
\* extract_speaker_spans returns.
InitSplit ==
    /\ text = <<>>
    /\ op = "speaker_spans"
    /\ markers = <<>>
    /\ spans \in SpanLists
    /\ range = <<0, 0>>
    /\ splits = <<>>
    /\ passes = <<>>
    /\ removed = [line_start |-> <<>>, inline |-> <<>>]
    /\ out = <<>>
    /\ arg = <<>>
    /\ files = <<>>
    /\ calls = <<>>

InitSpans ==
    /\ text \in SpanTexts
    /\ op = "input"
    /\ markers = <<>>
    /\ spans = <<>>
    /\ range = <<0, 0>>
    /\ splits = <<>>
    /\ passes = <<>>
    /\ removed = [line_start |-> <<>>, inline |-> <<>>]
    /\ out = <<>>
    /\ arg = <<>>
    /\ files = <<>>
    /\ calls = <<>>

\* spans = extract_speaker_spans(text)
ExtractSpeakerSpans ==
    /\ op = "input"
    /\ markers' = SpeakerMarkers(text, 0)
    /\ spans' = extract_speaker_spans(text)
    /\ op' = "extract_speaker_spans"
    /\ UNCHANGED <<arg, files, calls, text, range, splits, passes, removed, out>>

\* The largest offset a query is drawn from: one past the text and the spans.
RECURSIVE MaxEnd(_)
MaxEnd(ss) == IF ss = <<>> THEN 0 ELSE Max(Head(ss)[3], MaxEnd(Tail(ss)))
QueryLimit == Max(Len(text), MaxEnd(spans)) + 1

\* splits = split_by_speakers(spans, char_start, char_end)
SplitBySpeakers ==
    /\ op = "speaker_spans"
    /\ \E char_start \in 0..QueryLimit, char_end \in 0..QueryLimit :
          /\ char_start < char_end
          /\ range' = <<char_start, char_end>>
          /\ splits' = split_by_speakers(spans, char_start, char_end)
    /\ op' = "split_by_speakers"
    /\ UNCHANGED <<arg, files, calls, text, markers, spans, passes, removed, out>>

SpecSpans == InitSpans /\ [][ExtractSpeakerSpans]_vars

SpecSplit == InitSplit /\ [][SplitBySpeakers]_vars

\* A transcript about to be cleaned.
InitInput(texts) ==
    /\ text \in texts
    /\ op = "input"
    /\ markers = <<>>
    /\ spans = <<>>
    /\ range = <<0, 0>>
    /\ splits = <<>>
    /\ passes = <<>>
    /\ removed = [line_start |-> <<>>, inline |-> <<>>]
    /\ out = <<>>
    /\ arg = <<>>
    /\ files = <<>>
    /\ calls = <<>>

InitTitles == InitInput(TitleTexts)
InitSpeakers == InitInput(SpeakerTexts)
InitClean == InitInput(CleanTexts)

\* out = clean_titles(text)
CleanTitles ==
    /\ op = "input"
    /\ passes' = TitlePasses(text)
    /\ out' = clean_titles(text)
    /\ op' = "clean_titles"
    /\ UNCHANGED <<arg, files, calls, text, markers, spans, range, splits, removed>>

\* out = clean_speakers(text); removed holds what the third and the fourth
\* substitution matched in their inputs.
CleanSpeakers ==
    /\ op = "input"
    /\ passes' = SpeakerPasses(text)
    /\ removed' = [line_start |-> FindAll(newline_speaker, passes'[2], 0),
                   inline     |-> FindAll(speaker_name_inline, passes'[3], 0)]
    /\ out' = clean_speakers(text)
    /\ op' = "clean_speakers"
    /\ UNCHANGED <<arg, files, calls, text, markers, spans, range, splits>>

\* out = clean(text)
Clean ==
    /\ op = "input"
    /\ passes' = CleanPasses(text)
    /\ out' = clean(text)
    /\ op' = "clean"
    /\ UNCHANGED <<arg, files, calls, text, markers, spans, range, splits, removed>>

\* The cleaned text is cleaned again: text = out; out = clean(text)
CleanAgain ==
    /\ op = "clean"
    /\ text' = out
    /\ passes' = CleanPasses(out)
    /\ out' = clean(out)
    /\ op' = "clean_again"
    /\ UNCHANGED <<arg, files, calls, markers, spans, range, splits, removed>>

SpecTitles == InitTitles /\ [][CleanTitles]_vars

SpecSpeakers == InitSpeakers /\ [][CleanSpeakers \/ ExtractSpeakerSpans]_vars

SpecClean == InitClean /\ [][Clean \/ CleanAgain]_vars

-----------------------------------------------------------------------------
(* Properties of the speaker-span extractor.                               *)

\* The state right after extract_speaker_spans returned.
Extracted == op = "extract_speaker_spans"

\* C1: extract_speaker_spans returns one span per line-start match of
\* SPEAKER_MARKER_PATTERN, in document order: the i-th span carries the
\* normalized name of the i-th match and starts at that match's end, every span
\* but the last ends at the start of the next match, the last ends at
\* len(text), and spans of the same speaker stay separate.
SpansFollowMarkers ==
    Extracted =>
        /\ Len(spans) = Len(markers)
        /\ \A i \in 1..Len(spans) :
              /\ markers[i].start = 0 \/ text[markers[i].start] = "\n"
              /\ spans[i][1] = normalize_speaker_name(markers[i].group1)
              /\ spans[i][2] = markers[i].end
              /\ spans[i][3] = IF i < Len(spans) THEN markers[i+1].start
                               ELSE Len(text)
        /\ \A i \in 1..(Len(spans) - 1) : spans[i][2] < spans[i+1][2]

\* Two consecutive markers of the same speaker gave two spans.
SameSpeakerTwice ==
    /\ Extracted
    /\ Len(spans) = 2
    /\ spans[1][1] = spans[2][1]
    /\ spans[1][3] < Len(text)

\* C2 as stated: the spans leave no gaps, each span ending where the next
\* one starts.
SpansLeaveNoGaps ==
    Extracted => \A i \in 1..(Len(spans) - 1) : spans[i][3] = spans[i+1][2]

\* C2, amended: the spans are pairwise disjoint and in document order, and
\* what they leave out of [start of the first span, len(text)) is exactly the
\* text of the later markers: between two consecutive spans lies one match of
\* SPEAKER_MARKER_PATTERN, which is never empty, and the last span ends at
\* len(text).
SpansLeaveOutMarkers ==
    Extracted =>
        /\ \A i \in 1..(Len(spans) - 1) :
              /\ spans[i][3] < spans[i+1][2]
              /\ SpeakerMarkerAt(text, spans[i][3]) = <<markers[i+1]>>
              /\ markers[i+1].end = spans[i+1][2]
        /\ \A i, j \in 1..Len(spans) : i < j => spans[i][3] <= spans[j][2]
        /\ spans # <<>> => spans[Len(spans)][3] = Len(text)

\* A text with content between two markers: two spans with a marker between.
TwoSpansWithContent ==
    /\ op = "extract_speaker_spans"
    /\ Len(spans) = 2
    /\ spans[1][2] < spans[1][3]
    /\ spans[2][2] < spans[2][3]

\* C3 as stated: no span is empty.
NoSpanIsEmpty ==
    Extracted => \A i \in 1..Len(spans) : 0 <= spans[i][2] /\ spans[i][3] > spans[i][2]

\* C3, amended: 0 <= start_char <= end_char <= len(text) for every span, and
\* every span but the last is non-empty; the last span is empty when its
\* marker is the last thing in the text.
OnlyLastSpanMayBeEmpty ==
    Extracted =>
        /\ \A i \in 1..Len(spans) :
              0 <= spans[i][2] /\ spans[i][2] <= spans[i][3] /\ spans[i][3] <= Len(text)
        /\ \A i \in 1..(Len(spans) - 1) : spans[i][2] < spans[i][3]

\* Two markers on consecutive lines, the second ending the text.
EmptyLastSpan ==
    /\ op = "extract_speaker_spans"
    /\ Len(spans) = 2
    /\ spans[1][3] = spans[1][2] + 1
    /\ spans[2][2] = spans[2][3]

-----------------------------------------------------------------------------
(* Properties of split_by_speakers.                                        *)

\* The triples of splits are cut, in order, from spans of the input.
CutInOrder(strict) ==
    \E f \in [1..Len(splits) -> 1..Len(spans)] :
        /\ \A j \in 1..(Len(splits) - 1) : f[j] < f[j+1]
        /\ \A j \in 1..Len(splits) :
              /\ splits[j][1] = spans[f[j]][1]
              /\ spans[f[j]][2] <= splits[j][2]
              /\ splits[j][3] <= spans[f[j]][3]
              /\ range[1] <= splits[j][2]
              /\ splits[j][3] <= range[2]
              /\ IF strict \/ spans[f[j]][2] < spans[f[j]][3]
                 THEN splits[j][2] < splits[j][3]
                 ELSE splits[j][2] <= splits[j][3]

\* C4 as stated: every returned triple is a non-empty sub-range of the query
\* range and of its input span, in input order.
SplitsAreProperSubranges ==
    op = "split_by_speakers" => CutInOrder(TRUE)

\* C4, amended: for spans with start_char <= end_char, every returned triple
\* (speaker_id, start, end) has char_start <= start <= end <= char_end, with
\* start < end unless its input span is empty, is a sub-range of an input span
\* of the same speaker, and the triples keep the order of the input spans.
SplitsAreSubranges ==
    op = "split_by_speakers" => CutInOrder(FALSE)

\* A query that cuts two spans on both sides.
TwoSpansClipped ==
    /\ op = "split_by_speakers"
    /\ Len(spans) = 2
    /\ Len(splits) = 2
    /\ spans[1][2] < range[1]
    /\ range[2] < spans[2][3]

\* C5: split_by_speakers returns an empty list whenever the whole query range
\* lies inside a single span.
RangeInOneSpanGivesNoSplit ==
    ( /\ op = "split_by_speakers"
      /\ \E i \in 1..Len(spans) : spans[i][2] <= range[1] /\ range[2] <= spans[i][3] )
    => splits = <<>>

-----------------------------------------------------------------------------
(* Properties of the cleanup cascade.                                      *)

\* C6: clean is idempotent on its own output: cleaning a cleaned text again
\* changes nothing, clean(clean(t)) = clean(t).
CleanIsIdempotent ==
    op = "clean_again" => out = text

\* C7: the output of clean is never longer than its input, and no pass of the
\* cascade (a title replaced by a line break, a bracket removed, a speaker
\* marker replaced by a space or a line break, the lines stripped) makes the
\* text longer.
CleanNeverGrows ==
    op \in {"clean", "clean_again"} =>
        /\ Len(out) <= Len(text)
        /\ Len(passes) = 9
        /\ Len(passes[1]) <= Len(text)
        /\ \A k \in 1..(Len(passes) - 1) : Len(passes[k+1]) <= Len(passes[k])

\* A title, a bracket, a speaker and a trailing space in one text: the title
\* pass, the bracket pass, the line-start speaker pass and the strip each made
\* the text shorter.
EveryPassShortens ==
    /\ op = "clean"
    /\ Len(passes[2]) < Len(text)
    /\ Len(passes[3]) < Len(passes[2])
    /\ Len(passes[6]) < Len(passes[3])
    /\ Len(passes[9]) < Len(passes[6])
    /\ out = passes[9]

-----------------------------------------------------------------------------
(* Properties of clean_titles.                                             *)

\* The lines of s: the pieces between its line breaks "\n".
RECURSIVE LinesOf(_, _)
LinesOf(s, line) ==
    IF s = <<>> THEN <<line>>
    ELSE IF Head(s) = "\n" THEN <<line>> \o LinesOf(Tail(s), <<>>)
    ELSE LinesOf(Tail(s), Append(line, Head(s)))

\* A section-title line: trimmed, it is one of SECTION_TITLES in any case, or
\* it begins with FOCUS, optional whitespace and a hyphen.
IsTitleLine(line) ==
    \/ \E k \in 1..Len(SECTION_TITLES) :
          /\ Len(Strip(line)) = Len(SECTION_TITLES[k])
          /\ \A c \in 1..Len(SECTION_TITLES[k]) :
                Strip(line)[c] \in CaseFold(SECTION_TITLES[k][c])
    \/ Ends(Cat(<< LitCI(<<"F","O","C","U","S">>), Star(Set(WHITESPACE)),
                   Set({"-"}) >>), line, 0) # <<>>

\* The lines after are the lines before with every title line emptied.
TitleLinesEmptied(before, after) ==
    /\ Len(after) = Len(before)
    /\ \A k \in 1..Len(before) :
          after[k] = IF IsTitleLine(before[k]) THEN <<>> ELSE before[k]

\* C8: clean_titles replaces each section-title line with an empty line and
\* deletes no line break: the output has as many lines as the input, every
\* other line keeps its content and its index, and each title line's index
\* holds an empty line.
TitlesBecomeEmptyLines ==
    op = "clean_titles" =>
        With(LAMBDA before :
               With(LAMBDA after : TitleLinesEmptied(before, after),
                    LinesOf(out, <<>>)),
             LinesOf(text, <<>>))

-----------------------------------------------------------------------------
(* Properties of clean_speakers.                                           *)

\* A name of 1 to 4 tokens of name characters, one space between two tokens.
IsSpeakerName(n) ==
    /\ n # <<>>
    /\ \A k \in 1..Len(n) : n[k] \in NameChar \cup {" "}
    /\ n[1] # " " /\ n[Len(n)] # " "
    /\ \A k \in 1..(Len(n) - 1) : ~(n[k] = " " /\ n[k+1] = " ")
    /\ Cardinality({k \in 1..Len(n) : n[k] = " "}) <= 3

\* Content or leading text without a colon and without a line break: nothing
\* in it is, or is part of, a further speaker marker.
IsPlain(c) == \A k \in 1..Len(c) : c[k] \notin {":", "\n"}

\* C9: clean_speakers removes a speaker marker with the separator after its
\* colon: "\n" + NAME + ": " + C becomes " " + C, and P + " " + NAME + ": " + C
\* becomes P + "\n" + C when P ends a sentence, for a name NAME of 1 to 4
\* tokens, plain content C and plain leading text P.
MarkerGoesWithItsSeparator ==
    op = "clean_speakers" =>
        \A colon \in 1..(Len(text) - 1) :
            ( /\ text[colon] = ":" /\ text[colon + 1] = " "
              /\ IsPlain(Slice(text, colon + 1, Len(text))) )
            => /\ ( /\ text[1] = "\n"
                     /\ IsSpeakerName(Slice(text, 1, colon - 1)) )
                  => out = <<" ">> \o Slice(text, colon + 1, Len(text))
               /\ \A sep \in 2..(colon - 2) :
                     ( /\ text[sep] = " "
                       /\ text[sep - 1] \in {".", "?"}
                       /\ IsPlain(Slice(text, 0, sep - 1))
                       /\ IsSpeakerName(Slice(text, sep, colon - 1)) )
                     => out = Slice(text, 0, sep - 1) \o <<"\n">>
                                \o Slice(text, colon + 1, Len(text))

\* The character of s right after offset p is a period.
PeriodAt(s, p) == p < Len(s) /\ s[p + 1] = "."

\* C10 as stated: no speaker marker has its colon directly followed by a
\* period: not what the line-start removal and the inline removal of
\* clean_speakers delete, and not what SPEAKER_MARKER_PATTERN matches in
\* extract_speaker_spans.
NoMarkerBeforePeriod ==
    /\ op = "clean_speakers" =>
          /\ \A k \in 1..Len(removed.line_start) :
                ~PeriodAt(passes[2], removed.line_start[k][2])
          /\ \A k \in 1..Len(removed.inline) :
                ~PeriodAt(passes[3], removed.inline[k][2])
    /\ op = "extract_speaker_spans" =>
          \A k \in 1..Len(markers) :
              ~(text[markers[k].end] = ":" /\ PeriodAt(text, markers[k].end))

\* C10, amended: the inline removal of clean_speakers deletes no
\* name-plus-colon sequence whose colon is directly followed by a period; the
\* line-start removal and SPEAKER_MARKER_PATTERN have no such guard.
InlineRemovalSparesColonPeriod ==
    op = "clean_speakers" =>
        \A k \in 1..Len(removed.inline) :
            ~PeriodAt(passes[3], removed.inline[k][2])

\* An inline name whose colon is followed by a period stays in the text.
InlineNameBeforePeriodKept ==
    /\ op = "clean_speakers"
    /\ text = <<" ", "A", "b", ":", ".">>
    /\ removed.inline = <<>>
    /\ out = text

-----------------------------------------------------------------------------
(* guidhandler: the AAPB GUID in a string.                                 *)

\* The value None; it is no text, as its one element is not a character.
None == <<"None">>

\* (cpb-aacip[-_][a-z0-9-]+) : group 1 of the pattern of get_aapb_guid_from
guid_group ==
    Cat(<< Lit(<<"c","p","b","-","a","a","c","i","p">>), Set({"-", "_"}),
           Plus(Set(LOWER \cup DIGIT \cup {"-"})) >>)

\* (cpb-aacip[-_][a-z0-9-]+). : the group and one more character
guid_pattern == Cat(<< guid_group, AnyChar >>)

\* re.split(r'[-_]', s) for seps = {"-", "_"}
RECURSIVE SplitOn(_, _, _)
SplitOn(seps, s, part) ==
    IF s = <<>> THEN <<part>>
    ELSE IF Head(s) \in seps THEN <<part>> \o SplitOn(seps, Tail(s), <<>>)
    ELSE SplitOn(seps, Tail(s), Append(part, Head(s)))

\* list(reversed(xs))
Reversed(xs) == [k \in 1..Len(xs) |-> xs[Len(xs) + 1 - k]]

\* str.isalpha()
isalpha(part) ==
    part # <<>> /\ \A k \in 1..Len(part) : part[k] \in LOWER \cup UPPER

\* The loop over m_parts: the number of leading all-alphabetic parts.
RECURSIVE CountAlpha(_, _)
CountAlpha(m_parts, cur) ==
    IF cur < Len(m_parts) /\ isalpha(m_parts[cur + 1])
    THEN CountAlpha(m_parts, cur + 1)
    ELSE cur

\* len(' '.join(parts))
RECURSIVE JoinedLen(_)
JoinedLen(parts) ==
    IF parts = <<>> THEN 0
    ELSE IF Len(parts) = 1 THEN Len(parts[1])
    ELSE Len(parts[1]) + 1 + JoinedLen(Tail(parts))

\* The else branch of get_aapb_guid_from: m_str without its alphabetic
\* parts at the right.
GuidOf(m_str) ==
    With(LAMBDA m_parts :
           Slice(m_str, 0,
                 JoinedLen(SubSeq(m_parts, CountAlpha(m_parts, 0) + 1, Len(m_parts)))),
         Reversed(SplitOn({"-", "_"}, m_str, <<>>)))

get_aapb_guid_from(s) ==
    IF s = None THEN None
    ELSE With(LAMBDA m : IF m = <<>> THEN None
                         ELSE GuidOf(Slice(s, m[1], m[2] - 1)),
              Search(guid_pattern, s, 0))

MaxGuidTokens == 6

\* Pieces of a file name with a GUID: the prefix, the two separators, a
\* letter, a digit and the period of an extension.
GuidTokens ==
    << <<"c","p","b","-","a","a","c","i","p">>, <<"-">>, <<"_">>, <<"a">>,
       <<"1">>, <<".">> >>

InitGuid == InitInput(TextsOf(GuidTokens, MaxGuidTokens) \cup {None})

\* out = get_aapb_guid_from(text)
GetGuid ==
    /\ op = "input"
    /\ out' = get_aapb_guid_from(text)
    /\ op' = "get_aapb_guid_from"
    /\ UNCHANGED <<arg, files, calls, text, markers, spans, range, splits, passes, removed>>

\* The GUID found is searched for a GUID: text = out; out = get_aapb_guid_from(text)
GetGuidAgain ==
    /\ op = "get_aapb_guid_from"
    /\ out # None
    /\ text' = out
    /\ out' = get_aapb_guid_from(out)
    /\ op' = "get_aapb_guid_again"
    /\ UNCHANGED <<arg, files, calls, markers, spans, range, splits, passes, removed>>

SpecGuid == InitGuid /\ [][GetGuid \/ GetGuidAgain]_vars

\* What C11 says get_aapb_guid_from returns: None without a run
\* cpb-aacip[-_][a-z0-9-]+, else the longest run at its first place without
\* its alphabetic parts at the right.
StatedGuid(s) ==
    IF s = None THEN None
    ELSE With(LAMBDA m : IF m = <<>> THEN None ELSE GuidOf(Slice(s, m[1], m[2])),
              Search(guid_group, s, 0))

\* C11: get_aapb_guid_from returns None for None and for a string without
\* 'cpb-aacip', '-' or '_' and a character of [a-z0-9-]; otherwise it returns
\* the longest such run without the purely alphabetic segments at its right.
GuidIsTheTrimmedRun ==
    op = "get_aapb_guid_from" => out = StatedGuid(text)

\* The first k characters of s are those of w.
StartsWith(s, w) == Len(s) >= Len(w) /\ SubSeq(s, 1, Len(w)) = w

\* C17: every value g that get_aapb_guid_from returns starts with
\* 'cpb-aacip', and get_aapb_guid_from(g) = g.
GuidIsAFixedPoint ==
    /\ (op = "get_aapb_guid_from" /\ out # None) =>
          StartsWith(out, <<"c","p","b","-","a","a","c","i","p">>)
    /\ op = "get_aapb_guid_again" => out = text

-----------------------------------------------------------------------------
(* converter_aapbjson: create_AAPB_json and the files it writes.           *)

\* A path is a text without directories; files maps every path that exists
\* to its content.
exists(fs, path) == path \in DOMAIN fs

\* open(path, 'w') and a write: path holds content, the other files stay.
WriteFile(fs, path, content) ==
    [q \in DOMAIN fs \cup {path} |-> IF q = path THEN content ELSE fs[q]]

\* The largest k <= n with s[k] = c, or 0: str.rfind(c), counting from 1.
RECURSIVE LastIndexOf(_, _, _)
LastIndexOf(s, c, n) ==
    IF n = 0 THEN 0 ELSE IF s[n] = c THEN n ELSE LastIndexOf(s, c, n - 1)

\* os.path.splitext(path) for a path without directories: the extension
\* starts at the last period, unless only periods come before it.
splitext(path) ==
    With(LAMBDA dot :
           IF dot > 0 /\ \E k \in 1..(dot - 1) : path[k] # "."
           THEN <<SubSeq(path, 1, dot - 1), SubSeq(path, dot, Len(path))>>
           ELSE <<path, <<>> >>,
         LastIndexOf(path, ".", Len(path)))

\* str(n) for n >= 0
RECURSIVE str(_)
str(n) ==
    With(LAMBDA digit : IF n < 10 THEN digit ELSE str(n \div 10) \o digit,
         << <<"0">>, <<"1">>, <<"2">>, <<"3">>, <<"4">>,
            <<"5">>, <<"6">>, <<"7">>, <<"8">>, <<"9">> >>[(n % 10) + 1])

\* f"{file_name}_{count}.json"
Numbered(file_name, count) ==
    file_name \o <<"_">> \o str(count) \o <<".", "j", "s", "o", "n">>

\* The while loop: the first count from count on whose numbered path is free.
RECURSIVE FirstFree(_, _, _)
FirstFree(fs, file_name, count) ==
    IF exists(fs, Numbered(file_name, count))
    THEN FirstFree(fs, file_name, count + 1)
    ELSE count

\* Variant of output_path without the check for an existing file.
output_path_unchecked(fs, file_path) == file_path

\* The path create_AAPB_json opens for writing.
output_path(fs, file_path) ==
    IF exists(fs, file_path)
    THEN With(LAMBDA file_name : Numbered(file_name, FirstFree(fs, file_name, 1)),
              splitext(file_path)[1])
    ELSE file_path

MaxCalls == 3

\* The output paths callers ask for, and files that may be there already.
TargetPaths ==
    { <<"o", ".", "j", "s", "o", "n">>, <<"o", "_", "1", ".", "j", "s", "o", "n">>,
      <<"o", ".", "t", "x", "t">>, <<"o">> }
OtherPaths == { <<"o", "_", "2", ".", "j", "s", "o", "n">> }

\* Before the first call: some of the paths exist, written by others
\* (content 0).
InitConvert ==
    /\ text = <<>>
    /\ op = "start"
    /\ markers = <<>>
    /\ spans = <<>>
    /\ range = <<0, 0>>
    /\ splits = <<>>
    /\ passes = <<>>
    /\ removed = [line_start |-> <<>>, inline |-> <<>>]
    /\ out = <<>>
    /\ arg = <<>>
    /\ files \in UNION { [S -> {0}] : S \in SUBSET (TargetPaths \cup OtherPaths) }
    /\ calls = <<>>

\* create_AAPB_json(id, lang, parts, file_path): the content written stands
\* for the AAPB_dict of this call, and is the number of the call.
CreateAAPBJson ==
    /\ Len(calls) < MaxCalls
    /\ \E file_path \in TargetPaths :
          \E written \in {output_path(files, file_path)} :
              /\ files' = WriteFile(files, written, Len(calls) + 1)
              /\ calls' = Append(calls, [file_path |-> file_path,
                                         written |-> written])
    /\ op' = "create_AAPB_json"
    /\ UNCHANGED <<text, markers, spans, range, splits, passes, removed, out, arg>>

SpecConvert == InitConvert /\ [][CreateAAPBJson]_vars

\* The call file_path -> written, made with the files fs, followed the
\* naming rule: file_path itself when it is free, else the first free
\* <stem>_<n>.json, n from 1.
FollowsNamingRule(fs, call) ==
    IF ~exists(fs, call.file_path) THEN call.written = call.file_path
    ELSE \E n \in 1..(Cardinality(DOMAIN fs) + 1) :
            /\ call.written = Numbered(splitext(call.file_path)[1], n)
            /\ \A k \in 1..(n - 1) :
                  exists(fs, Numbered(splitext(call.file_path)[1], k))

\* C12: no call of create_AAPB_json overwrites a file that existed before
\* it: every file keeps its content, the call adds one file, and that file is
\* the target path or, when that exists, the first free <stem>_<n>.json.
NoCallOverwrites ==
    [][ /\ \A path \in DOMAIN files :
              exists(files', path) /\ files'[path] = files[path]
        /\ Cardinality(DOMAIN files') = Cardinality(DOMAIN files) + 1
        /\ ~exists(files, calls'[Len(calls')].written)
        /\ FollowsNamingRule(files, calls'[Len(calls')]) ]_vars

\* Three calls with the same path left three files, each with its content.
SamePathThrice ==
    /\ Len(calls) = 3
    /\ calls[1].file_path = calls[2].file_path
    /\ calls[2].file_path = calls[3].file_path
    /\ Cardinality({calls[k].written : k \in 1..3}) = 3
    /\ \A k \in 1..3 : files[calls[k].written] = k

-----------------------------------------------------------------------------
(* json_cleaner: the text of an AAPB-JSON object.                          *)

\* The values json.loads returns: dict (its items in order), list, str, int
\* and None.
JDict(items) == [t |-> "dict", items |-> items]
JItem(key, val) == [key |-> key, val |-> val]
JList(items) == [t |-> "list", items |-> items]
JStr(chars) == [t |-> "str", s |-> chars]
JInt(n) == [t |-> "int", n |-> n]
JNone == [t |-> "None"]

\* The outcome of evaluating an expression: a value, or an exception.
Value(v) == [ok |-> TRUE, v |-> v]
Raise(e) == [ok |-> FALSE, e |-> e]

\* A call that raised e; it is no text, as its element is not a character.
Raised(e) == <<e>>

PARTS == <<"p", "a", "r", "t", "s">>
TEXT == <<"t", "e", "x", "t">>

\* obj[key] for a str key
GetKey(obj, key) ==
    IF obj.t = "dict"
    THEN IF \E k \in 1..Len(obj.items) : obj.items[k].key = key
         THEN Value(obj.items[CHOOSE k \in 1..Len(obj.items) : obj.items[k].key = key].val)
         ELSE Raise("KeyError")
    ELSE Raise("TypeError")

\* len(obj)
PyLen(obj) ==
    IF obj.t \in {"dict", "list"} THEN Value(Len(obj.items))
    ELSE IF obj.t = "str" THEN Value(Len(obj.s))
    ELSE Raise("TypeError")

\* obj[i] for an int i in range(len(obj)); no key of a dict that json.loads
\* returned is an int.
GetIndex(obj, i) ==
    IF obj.t = "list" THEN Value(obj.items[i + 1])
    ELSE IF obj.t = "str" THEN Value(JStr(<<obj.s[i + 1]>>))
    ELSE IF obj.t = "dict" THEN Raise("KeyError")
    ELSE Raise("TypeError")

\* The loop of json_cleaner from i on: transcript_json['parts'][i]['text'] is
\* appended to sentences.
RECURSIVE CollectSentences(_, _, _, _)
CollectSentences(transcript_json, i, n, sentences) ==
    IF i >= n THEN Value(sentences)
    ELSE With(LAMBDA parts :
           IF ~parts.ok THEN parts
           ELSE With(LAMBDA part :
                  IF ~part.ok THEN part
                  ELSE With(LAMBDA sentence :
                         IF ~sentence.ok THEN sentence
                         ELSE CollectSentences(transcript_json, i + 1, n,
                                               Append(sentences, sentence.v)),
                         GetKey(part.v, TEXT)),
                  GetIndex(parts.v, i)),
           GetKey(transcript_json, PARTS))

\* ' '.join(sentences) for str values
RECURSIVE JoinSpaces(_), TextsJoined(_)
JoinSpaces(sentences) ==
    IF sentences = <<>> THEN <<>>
    ELSE IF Len(sentences) = 1 THEN sentences[1].s
    ELSE sentences[1].s \o <<" ">> \o JoinSpaces(Tail(sentences))

\* ' '.join(sentences): a TypeError unless every item is a str
PyJoin(sentences) ==
    IF \A k \in 1..Len(sentences) : sentences[k].t = "str"
    THEN Value(JoinSpaces(sentences))
    ELSE Raise("TypeError")

\* The try block of json_cleaner.
TryJsonCleaner(transcript_json) ==
    With(LAMBDA parts :
           IF ~parts.ok THEN parts
           ELSE With(LAMBDA n :
                  IF ~n.ok THEN n
                  ELSE With(LAMBDA sentences :
                         IF ~sentences.ok THEN sentences
                         ELSE With(LAMBDA joined :
                                IF ~joined.ok THEN joined
                                ELSE Value(clean(joined.v)),
                                PyJoin(sentences.v)),
                         CollectSentences(transcript_json, 0, n.v, <<>>)),
                  PyLen(parts.v)),
           GetKey(transcript_json, PARTS))

\* json_cleaner: the cleaned text, None after a KeyError, or the exception
\* that leaves the function.
json_cleaner(transcript_json) ==
    With(LAMBDA r : IF r.ok THEN r.v
                    ELSE IF r.e = "KeyError" THEN None
                    ELSE Raised(r.e),
         TryJsonCleaner(transcript_json))

MaxParts == 3

\* The parts of a transcript: with a text, without one, with a text that is
\* null, and a part that is a string.
PartValues ==
    { JDict(<<JItem(TEXT, JStr(<<"x">>))>>),
      JDict(<<JItem(TEXT, JStr(<<"(", "b", ")">>))>>),
      JDict(<<JItem(<<"i", "d">>, JInt(1))>>),
      JDict(<<JItem(TEXT, JNone)>>),
      JStr(<<"x">>) }

\* JSON objects with and without 'parts'; 'parts' is a list or null.
JsonObjects ==
    { JDict(<<>>), JDict(<<JItem(<<"i", "d">>, JStr(<<"x">>))>>),
      JDict(<<JItem(PARTS, JNone)>>) }
    \cup { JDict(<<JItem(PARTS, JList(parts))>>) :
              parts \in UNION { [1..n -> PartValues] : n \in 0..MaxParts } }

InitJson ==
    /\ text = <<>>
    /\ op = "input"
    /\ markers = <<>>
    /\ spans = <<>>
    /\ range = <<0, 0>>
    /\ splits = <<>>
    /\ passes = <<>>
    /\ removed = [line_start |-> <<>>, inline |-> <<>>]
    /\ out = <<>>
    /\ arg \in JsonObjects
    /\ files = <<>>
    /\ calls = <<>>

\* out = json_cleaner(arg)
JsonCleaner ==
    /\ op = "input"
    /\ out' = json_cleaner(arg)
    /\ op' = "json_cleaner"
    /\ UNCHANGED <<text, markers, spans, range, splits, passes, removed, arg,
                   files, calls>>

SpecJson == InitJson /\ [][JsonCleaner]_vars

\* The parts of a JSON object whose 'parts' is a list; none otherwise.
PartsOf(obj) ==
    With(LAMBDA parts : IF parts.ok /\ parts.v.t = "list" THEN parts.v.items ELSE <<>>,
         GetKey(obj, PARTS))

\* A part with the 'text' key.
HasText(part) == part.t = "dict" /\ GetKey(part, TEXT).ok

\* The 'text' fields of parts that all have one, joined by single spaces.
TextsJoined(parts) ==
    IF parts = <<>> THEN <<>>
    ELSE With(LAMBDA first :
                IF Len(parts) = 1 THEN first
                ELSE first \o <<" ">> \o TextsJoined(Tail(parts)),
              With(LAMBDA t : IF t.t = "str" THEN t.s ELSE Raised("no text"),
                   GetKey(parts[1], TEXT).v))

\* C16: json_cleaner returns None, and raises no error, for a JSON object
\* without the 'parts' key or with a part without the 'text' key; otherwise
\* it returns clean of the parts' text fields joined by single spaces, in
\* their order.
NoTextGivesNone ==
    op = "json_cleaner" =>
        IF ~GetKey(arg, PARTS).ok \/ \E k \in 1..Len(PartsOf(arg)) : ~HasText(PartsOf(arg)[k])
        THEN out = None
        ELSE out = clean(TextsJoined(PartsOf(arg)))

-----------------------------------------------------------------------------
(* converter_aapbjson: get_parts_from_mmif.                                *)

\* An annotation of a view: its type and its properties by name. Its id is
\* its place in the view.
Annotation(at_type, props) == [at_type |-> at_type, props |-> props]

TIMEFRAME == <<"T", "i", "m", "e", "F", "r", "a", "m", "e">>
SENTENCE == <<"S", "e", "n", "t", "e", "n", "c", "e">>
ALIGNMENT == <<"A", "l", "i", "g", "n", "m", "e", "n", "t">>
TOKEN == <<"T", "o", "k", "e", "n">>

\* "word" in str(annotation.at_type)
TypeHas(annotation, word) == Search(Lit(word), annotation.at_type, 0) # <<>>

\* annotation.get_property(name): a KeyError when it has none
get_property(annotation, name) ==
    IF name \in DOMAIN annotation.props THEN Value(annotation.props[name])
    ELSE Raise("KeyError")

\* view.get_annotation_by_id(id): a KeyError when the view has none
get_annotation_by_id(view, id) ==
    IF id \in 1..Len(view.annotations) THEN Value(view.annotations[id])
    ELSE Raise("KeyError")

\* {} and d[key] = value for the dict AAPB_dict
EmptyDict == [key \in {} |-> <<>>]
SetField(d, key, value) ==
    [k \in DOMAIN d \cup {key} |-> IF k = key THEN value ELSE d[k]]

\* parts.append(AAPB_dict); tmp_TF = []; AAPB_dict = {}; speaker_id += 1
AppendPart(st, AAPB_dict) ==
    [tmp_TF |-> <<>>, AAPB_dict |-> EmptyDict, speaker_id |-> st.speaker_id + 1,
     parts |-> Append(st.parts, AAPB_dict)]

\* The try statement for a Sentence of a whisper view: a KeyError or an
\* IndexError ends it where it is raised and leaves the rest as it is.
WhisperSentence(annotation, st) ==
    LET targets == get_property(annotation, "targets")
        said == get_property(annotation, "text")
        timed == SetField(SetField(st.AAPB_dict,
                                   "start_time", str(st.tmp_TF[1][1])),
                          "end_time", str(st.tmp_TF[Len(st.tmp_TF)][2]))
    IN  IF ~targets.ok THEN st
        ELSE IF Len(st.tmp_TF) = Len(targets.v)
        THEN IF st.tmp_TF = <<>> THEN st
             ELSE IF ~said.ok THEN [st EXCEPT !.AAPB_dict = timed]
             ELSE AppendPart(st, SetField(SetField(timed, "text", said.v),
                                          "speaker_id", st.speaker_id))
        ELSE AppendPart(st, st.AAPB_dict)

\* The loop over the annotations of a whisper view, from the k-th on; every
\* TimeFrame of the inputs has a start and an end.
RECURSIVE WhisperLoop(_, _, _)
WhisperLoop(view, k, st) ==
    IF k > Len(view.annotations) THEN Value(st)
    ELSE LET annotation == view.annotations[k]
             framed == IF TypeHas(annotation, TIMEFRAME)
                       THEN [st EXCEPT !.tmp_TF =
                               Append(@, <<annotation.props["start"],
                                           annotation.props["end"]>>)]
                       ELSE st
         IN  WhisperLoop(view, k + 1,
                         IF TypeHas(annotation, SENTENCE)
                         THEN WhisperSentence(annotation, framed)
                         ELSE framed)

\* The body of the loop of the other views for an Alignment: no exception is
\* caught there.
AlignedSentence(view, annotation, st) ==
    LET target_id == get_property(annotation, "target")
        source_id == get_property(annotation, "source")
        target == get_annotation_by_id(view, target_id.v)
        tf == get_annotation_by_id(view, source_id.v)
        start == get_property(tf.v, "start")
        end == get_property(tf.v, "end")
        said == get_property(target.v, "text")
    IN  IF ~target_id.ok THEN target_id
        ELSE IF ~target.ok THEN target
        ELSE IF ~TypeHas(target.v, SENTENCE) THEN Value(st)
        ELSE IF ~source_id.ok THEN source_id
        ELSE IF ~tf.ok THEN tf
        ELSE IF ~start.ok THEN start
        ELSE IF ~end.ok THEN end
        ELSE IF ~said.ok THEN said
        ELSE Value([AppendPart(st,
                       [start_time |-> str(start.v), end_time |-> str(end.v),
                        text |-> said.v, speaker_id |-> st.speaker_id])
                    EXCEPT !.tmp_TF = st.tmp_TF])

\* The loop over the annotations of a view of another app, from the k-th on.
RECURSIVE AlignmentLoop(_, _, _)
AlignmentLoop(view, k, st) ==
    IF k > Len(view.annotations) THEN Value(st)
    ELSE IF TypeHas(view.annotations[k], ALIGNMENT)
    THEN LET r == AlignedSentence(view, view.annotations[k], st)
         IN  IF r.ok THEN AlignmentLoop(view, k + 1, r.v) ELSE r
    ELSE AlignmentLoop(view, k + 1, st)

\* The loop over the views from the k-th on: the parts, or the exception
\* that leaves the function.
RECURSIVE ViewsLoop(_, _, _)
ViewsLoop(views, k, parts) ==
    IF k > Len(views) THEN Value(parts)
    ELSE LET st == [tmp_TF |-> <<>>, AAPB_dict |-> EmptyDict, speaker_id |-> 1,
                    parts |-> parts]
             r == IF views[k].whisper THEN WhisperLoop(views[k], 1, st)
                  ELSE AlignmentLoop(views[k], 1, st)
         IN  IF r.ok THEN ViewsLoop(views, k + 1, r.v.parts) ELSE r

\* get_parts_from_mmif: the parts it returns, or the exception it raises.
get_parts_from_mmif(views) == ViewsLoop(views, 1, <<>>)

MaxAnnotations == 3

\* The annotations of a whisper view: a TimeFrame, a Token, and Sentences
\* with one target, with two, with none, without targets and without text.
WhisperAnnotations ==
    { Annotation(TIMEFRAME, [start |-> 1, end |-> 2]),
      Annotation(TOKEN, [word |-> <<"x">>]),
      Annotation(SENTENCE, [targets |-> <<1>>, text |-> <<"x">>]),
      Annotation(SENTENCE, [targets |-> <<1, 2>>, text |-> <<"x">>]),
      Annotation(SENTENCE, [targets |-> <<>>, text |-> <<"x">>]),
      Annotation(SENTENCE, [text |-> <<"x">>]),
      Annotation(SENTENCE, [targets |-> <<1>>]) }

\* The annotations of a view of another app: a TimeFrame, a Sentence, and
\* Alignments between any two places of the view.
AlignedAnnotations ==
    { Annotation(TIMEFRAME, [start |-> 1, end |-> 2]),
      Annotation(SENTENCE, [text |-> <<"x">>]) }
    \cup { Annotation(ALIGNMENT, [source |-> s, target |-> t]) :
              s \in 1..MaxAnnotations, t \in 1..MaxAnnotations }

\* The views with up to n annotations.
Views(n) ==
    UNION { { [whisper |-> TRUE, annotations |-> as] :
                as \in [1..k -> WhisperAnnotations] }
            \cup { [whisper |-> FALSE, annotations |-> as] :
                     as \in [1..k -> AlignedAnnotations] } : k \in 0..n }

\* A second view of an MMIF: a whisper view with one sentence, or with a
\* Sentence whose targets are not the TimeFrames before it.
SecondViews ==
    { [whisper |-> TRUE, annotations |->
         << Annotation(TIMEFRAME, [start |-> 1, end |-> 2]),
            Annotation(SENTENCE, [targets |-> <<1>>, text |-> <<"x">>]) >>],
      [whisper |-> TRUE, annotations |->
         << Annotation(SENTENCE, [targets |-> <<1>>, text |-> <<"x">>]) >>] }

\* mmif_obj.views: one view, or two.
MMIFs(n) ==
    { <<v>> : v \in Views(n) } \cup { <<v, w>> : v \in Views(n), w \in SecondViews }

InitParts ==
    /\ text = <<>>
    /\ op = "input"
    /\ markers = <<>>
    /\ spans = <<>>
    /\ range = <<0, 0>>
    /\ splits = <<>>
    /\ passes = <<>>
    /\ removed = [line_start |-> <<>>, inline |-> <<>>]
    /\ out = <<>>
    /\ arg \in MMIFs(MaxAnnotations)
    /\ files = <<>>
    /\ calls = <<>>

\* out = get_parts_from_mmif(arg), or the call raises a KeyError.
GetParts ==
    /\ op = "input"
    /\ \E r \in {get_parts_from_mmif(arg)} :
          /\ out' = IF r.ok THEN r.v ELSE <<>>
          /\ op' = IF r.ok THEN "get_parts_from_mmif" ELSE r.e
    /\ UNCHANGED <<text, markers, spans, range, splits, passes, removed, arg,
                   files, calls>>

SpecParts == InitParts /\ [][GetParts]_vars

\* C15: every element of the parts that get_parts_from_mmif returns has the
\* four fields start_time, end_time, text and speaker_id, whatever the
\* TimeFrames, Sentences and Alignments of the views are.
EveryPartHasFourFields ==
    op = "get_parts_from_mmif" =>
        \A k \in 1..Len(out) :
            DOMAIN out[k] = {"start_time", "end_time", "text", "speaker_id"}

-----------------------------------------------------------------------------
(* json.loads, for texts of objects, arrays, strings without escapes and   *)
(* null.                                                                   *)

\* A value parsed up to offset p, or the error of the decoder.
Parsed(v, p) == [ok |-> TRUE, v |-> v, p |-> p]
DecodeError == [ok |-> FALSE, e |-> "JSONDecodeError"]

\* The offset of the first character from p on that is no JSON whitespace.
RECURSIVE SkipWs(_, _)
SkipWs(s, p) ==
    IF p < Len(s) /\ s[p + 1] \in {" ", "\t", "\n", "\r"} THEN SkipWs(s, p + 1) ELSE p

\* s has the word w at offset p.
HasAt(s, p, w) == p + Len(w) <= Len(s) /\ SubSeq(s, p + 1, p + Len(w)) = w

\* The offset of the first quote from p on, or -1.
RECURSIVE QuoteFrom(_, _)
QuoteFrom(s, p) ==
    IF p >= Len(s) THEN -1 ELSE IF s[p + 1] = "\"" THEN p ELSE QuoteFrom(s, p + 1)

\* A string that starts with the quote at offset p; it holds no control
\* character.
ParseString(s, p) ==
    With(LAMBDA q : IF q < 0 \/ \E k \in (p + 2)..q : s[k] \in {"\t", "\n", "\r", "\f"}
                    THEN DecodeError
                    ELSE Parsed(JStr(Slice(s, p + 1, q)), q + 1),
         QuoteFrom(s, p + 1))

\* d[key] = val for the items of a dict: a key keeps its place.
SetItem(items, key, val) ==
    IF \E k \in 1..Len(items) : items[k].key = key
    THEN [k \in 1..Len(items) |-> IF items[k].key = key THEN JItem(key, val) ELSE items[k]]
    ELSE Append(items, JItem(key, val))

RECURSIVE ParseValue(_, _), ParseMembers(_, _, _), ParseElements(_, _, _)

\* The value that starts at offset p.
ParseValue(s, p) ==
    IF HasAt(s, p, <<"{">>)
    THEN With(LAMBDA q : IF HasAt(s, q, <<"}">>) THEN Parsed(JDict(<<>>), q + 1)
                         ELSE ParseMembers(s, q, <<>>),
              SkipWs(s, p + 1))
    ELSE IF HasAt(s, p, <<"[">>)
    THEN With(LAMBDA q : IF HasAt(s, q, <<"]">>) THEN Parsed(JList(<<>>), q + 1)
                         ELSE ParseElements(s, q, <<>>),
              SkipWs(s, p + 1))
    ELSE IF HasAt(s, p, <<"\"">>) THEN ParseString(s, p)
    ELSE IF HasAt(s, p, <<"n", "u", "l", "l">>) THEN Parsed(JNone, p + 4)
    ELSE DecodeError

\* The members of an object from the key at offset p on.
ParseMembers(s, p, items) ==
    IF ~HasAt(s, p, <<"\"">>) THEN DecodeError
    ELSE With(LAMBDA key :
           IF ~key.ok \/ ~HasAt(s, SkipWs(s, key.p), <<":">>) THEN DecodeError
           ELSE With(LAMBDA val :
                  IF ~val.ok THEN DecodeError
                  ELSE With(LAMBDA q :
                         IF HasAt(s, q, <<"}">>)
                         THEN Parsed(JDict(SetItem(items, key.v.s, val.v)), q + 1)
                         ELSE IF HasAt(s, q, <<",">>)
                         THEN ParseMembers(s, SkipWs(s, q + 1),
                                           SetItem(items, key.v.s, val.v))
                         ELSE DecodeError,
                         SkipWs(s, val.p)),
                  ParseValue(s, SkipWs(s, SkipWs(s, key.p) + 1))),
           ParseString(s, p))

\* The elements of an array from the value at offset p on.
ParseElements(s, p, items) ==
    With(LAMBDA val :
           IF ~val.ok THEN DecodeError
           ELSE With(LAMBDA q :
                  IF HasAt(s, q, <<"]">>) THEN Parsed(JList(Append(items, val.v)), q + 1)
                  ELSE IF HasAt(s, q, <<",">>)
                  THEN ParseElements(s, SkipWs(s, q + 1), Append(items, val.v))
                  ELSE DecodeError,
                  SkipWs(s, val.p)),
         ParseValue(s, p))

\* json.loads(s): the value of the whole text, or a JSONDecodeError.
json_loads(s) ==
    With(LAMBDA val :
           IF val.ok /\ SkipWs(s, val.p) = Len(s) THEN Value(val.v)
           ELSE Raise("JSONDecodeError"),
         ParseValue(s, SkipWs(s, 0)))

-----------------------------------------------------------------------------
(* file_cleaner and clean_and_write: a directory of transcripts cleaned.   *)

\* A file of a directory is the path <<dir, name>>.
JSON_SUFFIX == <<".", "j", "s", "o", "n">>
TXT_SUFFIX == <<".", "t", "x", "t">>

\* s.startswith(w), s.endswith(w)
startswith(s, w) == Len(s) >= Len(w) /\ SubSeq(s, 1, Len(w)) = w
endswith(s, w) == Len(s) >= Len(w) /\ SubSeq(s, Len(s) - Len(w) + 1, Len(s)) = w

\* is_json(in_file) as the if of file_cleaner takes it: None counts as False.
is_json(fs, in_file) ==
    IF endswith(in_file[2], JSON_SUFFIX) THEN TRUE
    ELSE IF endswith(in_file[2], TXT_SUFFIX)
    THEN With(LAMBDA stripped : startswith(stripped, <<"{">>) /\ endswith(stripped, <<"}">>),
              Strip(fs[in_file]))
    ELSE FALSE

\* file_cleaner(dirty_transcript_file): the text or None it returns, or the
\* exception it raises.
file_cleaner(fs, dirty_transcript_file) ==
    IF is_json(fs, dirty_transcript_file)
    THEN With(LAMBDA transcript_json :
                IF ~transcript_json.ok THEN transcript_json
                ELSE With(LAMBDA cleaned :
                            IF cleaned = Raised("TypeError") THEN Raise("TypeError")
                            ELSE Value(cleaned),
                          json_cleaner(transcript_json.v)),
              json_loads(fs[dirty_transcript_file]))
    ELSE Value(clean(<<"\n">> \o fs[dirty_transcript_file]))

\* Path.suffix, and Path.with_suffix(suffix).name
suffix(name) ==
    With(LAMBDA dot : IF 1 < dot /\ dot < Len(name) THEN SubSeq(name, dot, Len(name))
                      ELSE <<>>,
         LastIndexOf(name, ".", Len(name)))
with_suffix(name, new_suffix) ==
    SubSeq(name, 1, Len(name) - Len(suffix(name))) \o new_suffix

\* The loop of clean_and_write from the k-th listed file on: the files it
\* leaves, and the exception that ended it ("" when none did).
RECURSIVE CleanLoop(_, _, _, _, _)
CleanLoop(fs, indir, outdir, listing, k) ==
    IF k > Len(listing) THEN [files |-> fs, e |-> ""]
    ELSE IF suffix(listing[k]) \notin {JSON_SUFFIX, TXT_SUFFIX}
    THEN CleanLoop(fs, indir, outdir, listing, k + 1)
    ELSE With(LAMBDA cleaned :
                IF ~cleaned.ok THEN [files |-> fs, e |-> cleaned.e]
                ELSE IF cleaned.v = None
                THEN CleanLoop(fs, indir, outdir, listing, k + 1)
                ELSE CleanLoop(WriteFile(fs, <<outdir, with_suffix(listing[k], TXT_SUFFIX)>>,
                                         cleaned.v),
                               indir, outdir, listing, k + 1),
              file_cleaner(fs, <<indir, listing[k]>>))

\* clean_and_write(indir, outdir) when indir.glob("*") lists the names of
\* listing in that order.
clean_and_write(fs, indir, outdir, listing) == CleanLoop(fs, indir, outdir, listing, 1)

MaxInputFiles == 3

\* The names of the input directory: two transcripts of one stem, a third
\* transcript, and a file that is no transcript.
InputNames ==
    << <<"a", ".", "j", "s", "o", "n">>, <<"a", ".", "t", "x", "t">>, <<"b", ".", "t", "x", "t">>, <<"c", ".", "m", "d">> >>

\* What a file may hold: a transcript in AAPB-JSON, another, an object
\* without parts, a text that is cut off, a plain text, and a JSON list.
FileContents ==
    { <<"{", "\"", "p", "a", "r", "t", "s", "\"", ":", "[", "{", "\"", "t", "e", "x", "t", "\"", ":", "\"", "x", "\"", "}", "]", "}">>,
      <<"{", "\"", "p", "a", "r", "t", "s", "\"", ":", "[", "{", "\"", "t", "e", "x", "t", "\"", ":", "\"", "y", " ", "(", "b", ")", "\"", "}", "]", "}">>,
      <<"{", "}">>,
      <<"{", "\"", "p", "a", "r", "t", "s", "\"", ":", "[">>,
      <<"y", " ", "(", "b", ")">>,
      <<"[", "]">> }

\* The input directories: at most MaxInputFiles of the names, each with one
\* of the contents.
InputDirs ==
    UNION { [{<<"in", InputNames[k]>> : k \in S} -> FileContents] :
            S \in {T \in SUBSET (1..Len(InputNames)) : Cardinality(T) <= MaxInputFiles} }

\* The orders in which glob may list the names of a directory.
Listings(names) ==
    {l \in [1..Cardinality(names) -> names] : \A i, j \in DOMAIN l : l[i] = l[j] => i = j}

InitBatch ==
    /\ text = <<>>
    /\ op = "input"
    /\ markers = <<>>
    /\ spans = <<>>
    /\ range = <<0, 0>>
    /\ splits = <<>>
    /\ passes = <<>>
    /\ removed = [line_start |-> <<>>, inline |-> <<>>]
    /\ out = <<>>
    /\ arg = <<>>
    /\ files \in InputDirs
    /\ calls = <<>>

\* clean_and_write("in", "out"): calls holds the files in the order glob
\* listed them, and op the exception, if one ended the run.
CleanAndWrite ==
    /\ op = "input"
    /\ \E listing \in Listings({path[2] : path \in DOMAIN files}) :
          \E run \in {clean_and_write(files, "in", "out", listing)} :
              /\ files' = run.files
              /\ calls' = listing
              /\ op' = IF run.e = "" THEN "clean_and_write" ELSE run.e
    /\ UNCHANGED <<text, markers, spans, range, splits, passes, removed, out, arg>>

SpecBatch == InitBatch /\ [][CleanAndWrite]_vars

\* The transcripts among the listed files, and where the output of one goes.
IsTranscript(name) == suffix(name) \in {JSON_SUFFIX, TXT_SUFFIX}
OutputOf(name) == <<"out", with_suffix(name, TXT_SUFFIX)>>

\* The file name alone cleans to a text: file_cleaner neither raises nor
\* returns None.
CleansToText(name) ==
    With(LAMBDA cleaned : cleaned.ok /\ cleaned.v # None,
         file_cleaner(files, <<"in", name>>))

\* The file is taken for JSON and json.loads rejects it.
IsMalformed(name) ==
    /\ IsTranscript(name)
    /\ is_json(files, <<"in", name>>)
    /\ ~json_loads(files[<<"in", name>>]).ok

\* C13: in a run of clean_and_write over a directory with a file that is
\* invalid JSON, that file is skipped: the run does not end with the decode
\* error, and every other transcript that cleans to a text, listed before or
\* after the malformed one, has its cleaned output written.
MalformedFileIsSkipped ==
    (op # "input" /\ \E m \in 1..Len(calls) : IsMalformed(calls[m])) =>
        /\ op # "JSONDecodeError"
        /\ \A k \in 1..Len(calls) :
              (IsTranscript(calls[k]) /\ CleansToText(calls[k]))
              => exists(files, OutputOf(calls[k]))

\* The transcripts of the run that write an output.
Writers == {k \in 1..Len(calls) : IsTranscript(calls[k]) /\ CleansToText(calls[k])}

\* C14: after a run of clean_and_write, for every transcript of the input
\* directory whose cleaned text is not None the output directory holds the
\* same-named .txt file with exactly that text, and no two inputs of the run
\* write to the same output path.
EveryInputHasItsOutput ==
    op = "clean_and_write" =>
        \A k \in Writers :
            /\ exists(files, OutputOf(calls[k]))
            /\ files[OutputOf(calls[k])] = file_cleaner(files, <<"in", calls[k]>>).v
            /\ \A j \in Writers : j # k => OutputOf(calls[j]) # OutputOf(calls[k])

=============================================================================
